---- MODULE Spec2Model ----
(***************************************************************************)
(* DelayedNotifier: the delayed-dispatch engine.                           *)
(*                                                                         *)
(* Store (PostgresRepo), Cache (redis), DelayBus (per-id TTL queue that    *)
(* dead-letters onto the dispatch queue), NotificationService, the HTTP    *)
(* callers of CreateNotification and Cancel, and the consumer pool         *)
(* (Consumer.sender).                                                      *)
(*                                                                         *)
(* A handler is cut into steps at its calls to the Store, the bus and the  *)
(* Sender, which is where goroutines interleave.  A Cache call is taken    *)
(* together with the Store call it follows.  Local computation belongs to  *)
(* the step of the call before it.                                         *)
(*                                                                         *)
(* Faults: a Cache read or write, a bus publish and a Sender call may      *)
(* fail.  The SQL statements of the Store execute; the Store outcomes      *)
(* modelled are the data-dependent ones (ErrNotFound, ErrNoRowAffected).   *)
(* Time is in seconds.                                                     *)
(***************************************************************************)
EXTENDS Integers, FiniteSets, Sequences, TLC

\* ---------------------------------------------------------------- bounds
MaxIds == 1
NumWorkers == 2
MaxDup == 1
MaxSched == 3
MaxNow == 1
MaxRetryCount == 1
MaxRequests == 2

\* ------------------------------------------------------ program constants
Grace == 2
ShortTtl == 2
Attempts == 3
StuckThreshold == 600

Ids == 1..MaxIds
Workers == 1..NumWorkers
Requests == 1..MaxRequests

\* ------------------------------------------------------------ domain
StatusPending == "pending"
StatusProcessing == "processing"
StatusSent == "sent"
StatusFailed == "failed"
StatusCancelled == "cancelled"

ChannelEmail == "email"
ChannelTelegram == "telegram"

Channels == {ChannelEmail, ChannelTelegram, "sms"}
Recipients == {"", "a@b.c"}

Statuses == {StatusPending, StatusProcessing, StatusSent, StatusFailed, StatusCancelled}

StatusIsValidAny(s) == TRUE
StatusIsValid(s) == s \in {StatusPending, StatusProcessing, StatusSent, StatusFailed, StatusCancelled}

ChannelIsValidAny(c) == TRUE
ChannelIsValid(c) == c \in {ChannelEmail, ChannelTelegram}

\* errors
ErrNil == "nil"
ErrInvalidChannel == "invalid channel"
ErrInvalidStatus == "invalid status"
ErrEmptyRecipient == "recipient is empty"
ErrEmptyUpdateOptions == "no update options provided"
ErrNotFound == "notification not found"
ErrNoRowAffected == "no row affected"
ErrTransition == "notification status"
ErrRedis == "redis"
ErrDb == "db"

\* absent values
Nil == [nil |-> TRUE]
NoRow == [norow |-> TRUE]
Missing == [missing |-> TRUE]
NoTtl == 0 - 1

\* payloads of a request: the nil map and a JSON object
Payloads == {Nil, [subject |-> "s"]}

\* domain.UpdateParams: Nil marks a field no option has set
NoParams == [status |-> Nil, channel |-> Nil, retryCountInc |-> FALSE]
WithStatus(status) == [NoParams EXCEPT !.status = [v |-> status]]
WithChannel(channel) == [NoParams EXCEPT !.channel = [v |-> channel]]
WithRetryCountInc == [NoParams EXCEPT !.retryCountInc = TRUE]

\* ------------------------------------------------------------ cache keys
redisKeyPrefix == "notification:"
Key(prefix, id) == <<prefix, id>>
GetKey(id) == Key("", id)
SetKey(id) == Key(redisKeyPrefix, id)
CacheKeys == {Key(p, id) : p \in {"", redisKeyPrefix}, id \in Ids}

Marshal(n) == [json |-> n]
Unmarshal(data) == IF DOMAIN data = {"json"} THEN data.json ELSE Nil

VARIABLES
    store,      \* notifications table: id -> row | NoRow
    cache,      \* redis: key -> bytes | Missing
    delayq,     \* id -> number of messages waiting in queue:<id>
    dispatch,   \* id -> number of undelivered messages on the dispatch queue
    dups,       \* redeliveries made by the broker
    nextId,     \* the next id the Store assigns
    create,     \* the CreateNotification call in progress
    cancel,     \* the Cancel call in progress
    worker,     \* consumer goroutines
    cancelOk,   \* ids for which Cancel has returned nil
    issued,     \* ids CreateNotification has returned to a caller
    get,        \* the GetNotificationByID call of a GET request in progress
    update,     \* a direct UpdateNotification call in progress
    repo,       \* direct calls of PendingToProcess and ListPendingAndProcessingBefore
    ctxDone,    \* the consumer's context has been cancelled
    smtp,       \* SMTPSender: its mutex, the Send calls and their sendMessage goroutines
    http        \* the handlers' package-level ErrResponceMessage and the requests using it

vars == <<store, cache, delayq, dispatch, dups, nextId, create, cancel, worker, cancelOk,
          issued, get, update, repo,
         ctxDone, smtp, http>>

StatusOf(st, id) == IF st[id] = NoRow THEN "none" ELSE st[id].status

\* ------------------------------------------------------------ Store
\* PostgresRepo.Create: the notification it returns
RepoCreate(id, opt) ==
    [id |-> id, recipient |-> opt.recipient, channel |-> opt.channel,
     payload |-> opt.payload, scheduledAt |-> opt.scheduledAt, status |-> opt.status,
     retryCount |-> 0]

\* the row of a notification: the payload column holds json.Marshal(n.Payload)
Row(n) == [n EXCEPT !.payload = Marshal(n.payload)]

\* PostgresRepo.GetByID on a row that exists: the payload column is unmarshalled
RepoGetByIDRaw(st, id) == st[id]
RepoGetByID(st, id) == [st[id] EXCEPT !.payload = Unmarshal(@)]

\* buildUpdateSQL: the SET list applied to the row
ApplyUpdateDec(row, p) ==
    LET r1 == IF p.status # Nil THEN [row EXCEPT !.status = p.status.v] ELSE row
        r2 == IF p.retryCountInc THEN [r1 EXCEPT !.retryCount = @ - 1] ELSE r1
        r3 == IF p.channel # Nil THEN [r2 EXCEPT !.channel = p.channel.v] ELSE r2
    IN  r3
ApplyUpdateTwice(row, p) ==
    LET r1 == IF p.status # Nil THEN [row EXCEPT !.status = p.status.v] ELSE row
        r2 == IF p.retryCountInc THEN [r1 EXCEPT !.retryCount = @ + 2] ELSE r1
        r3 == IF p.channel # Nil THEN [r2 EXCEPT !.channel = p.channel.v] ELSE r2
    IN  r3
ApplyUpdate(row, p) ==
    LET r1 == IF p.status # Nil THEN [row EXCEPT !.status = p.status.v] ELSE row
        r2 == IF p.retryCountInc THEN [r1 EXCEPT !.retryCount = @ + 1] ELSE r1
        r3 == IF p.channel # Nil THEN [r2 EXCEPT !.channel = p.channel.v] ELSE r2
    IN  r3

\* PostgresRepo.Update: [store, err]; no row matched gives ErrNoRowAffected
RepoUpdate(st, id, p) ==
    IF st[id] = NoRow
    THEN [store |-> st, noRow |-> TRUE]
    ELSE [store |-> [st EXCEPT ![id] = ApplyUpdate(st[id], p)], noRow |-> FALSE]

\* PendingToProcess: UPDATE notifications SET status = processing WHERE id = id AND
\* status = pending, one statement; the update trigger stamps updated_at.
\* [store, ok]: ok is rows > 0
RepoPendingToProcessBlind(st, id, now) ==
    IF st[id] # NoRow
    THEN [store |-> [st EXCEPT ![id] = [@ EXCEPT !.status = StatusProcessing,
                                                 !.updatedAt = now]],
          ok |-> TRUE]
    ELSE [store |-> st, ok |-> FALSE]
RepoPendingToProcess(st, id, now) ==
    IF st[id] # NoRow /\ st[id].status = StatusPending
    THEN [store |-> [st EXCEPT ![id] = [@ EXCEPT !.status = StatusProcessing,
                                                 !.updatedAt = now]],
          ok |-> TRUE]
    ELSE [store |-> st, ok |-> FALSE]

\* ListPendingAndProcessingBefore: the WHERE clause as SQL reads it (AND binds
\* tighter than OR)
ListWhereAndFirst(row, t, now) ==
    /\ row.scheduledAt <= t
    /\ \/ row.status = StatusPending
       \/ (row.status = StatusProcessing /\ row.updatedAt < now - StuckThreshold)
ListWhere(row, t, now) ==
    \/ (row.scheduledAt <= t /\ row.status = StatusPending)
    \/ (row.status = StatusProcessing /\ row.updatedAt < now - StuckThreshold)

\* the ids of the rows the WHERE clause selects
ListMatching(st, t, now) == {id \in Ids : st[id] # NoRow /\ ListWhere(st[id], t, now)}

\* the number of rows left by OFFSET and LIMIT (each applied when > 0)
ListCount(k, limit, offset) ==
    LET rest == IF offset >= k THEN 0 ELSE k - offset IN
    IF limit > 0 /\ limit < rest THEN limit ELSE rest

\* the id sets the query may return: it has no ORDER BY, so LIMIT and OFFSET cut
\* any rows of the selection
ListResults(st, t, now, limit, offset) ==
    {S \in SUBSET ListMatching(st, t, now) :
        Cardinality(S) = ListCount(Cardinality(ListMatching(st, t, now)), limit, offset)}

\* ListPendingAndProcessingBefore: what it returns when no row was scanned
EmptyListAsNil == [rows |-> {}, err |-> ErrNil]
EmptyListResult == [rows |-> {}, err |-> ErrNotFound]

\* ------------------------------------------------------------ Service
marshalAndSetSkip(c, n, setErr) ==
    IF setErr THEN [cache |-> c, err |-> ErrRedis] ELSE [cache |-> c, err |-> ErrNil]
marshalAndSet(c, n, setErr) ==
    IF setErr THEN [cache |-> c, err |-> ErrRedis]
    ELSE [cache |-> [c EXCEPT ![SetKey(n.id)] = Marshal(n)], err |-> ErrNil]

\* CreateNotification: the initial status and the publish ttl
ScheduleLe(scheduledAt, now) ==
    IF scheduledAt <= now + Grace
    THEN [status |-> StatusProcessing, ttl |-> ShortTtl]
    ELSE [status |-> StatusPending, ttl |-> scheduledAt - (now + Grace)]
Schedule(scheduledAt, now) ==
    IF scheduledAt < now + Grace
    THEN [status |-> StatusProcessing, ttl |-> ShortTtl]
    ELSE [status |-> StatusPending, ttl |-> scheduledAt - (now + Grace)]

\* CreateNotification: the status written when the publish has failed
RollbackKeep(row) == WithStatus(row.status)
Rollback(row) == WithStatus(StatusPending)

\* GetNotificationByID: what it returns when the Store has no row for the id
NotFoundAsNil == [n |-> Nil, err |-> ErrNil]
NotFoundResult == [n |-> Nil, err |-> ErrNotFound]

\* [n, err, cache, reply]: reply is what redis.Get answered ("err", "nil" for
\* redis.Nil, "data")
GetNotificationByID(id, getErr, setErr) ==
    LET redisData == cache[GetKey(id)] IN
    IF getErr THEN [n |-> Nil, err |-> ErrRedis, cache |-> cache, reply |-> "err"]
    ELSE IF redisData = Missing
    THEN IF store[id] = NoRow
         THEN [n |-> NotFoundResult.n, err |-> NotFoundResult.err, cache |-> cache,
               reply |-> "nil"]
         ELSE LET m == marshalAndSet(cache, RepoGetByID(store, id), setErr) IN
              IF m.err # ErrNil
              THEN [n |-> Nil, err |-> m.err, cache |-> m.cache, reply |-> "nil"]
              ELSE [n |-> RepoGetByID(store, id), err |-> ErrNil, cache |-> m.cache,
                    reply |-> "nil"]
    ELSE [n |-> Unmarshal(redisData), err |-> ErrNil, cache |-> cache, reply |-> "data"]

\* UpdateNotification: the error it returns for an error of repo.Update
SoftNoRowOff(err) == err
SoftNoRow(err) == IF err = ErrNoRowAffected THEN ErrNil ELSE err

\* UpdateNotification; execErr is a failing ExecContext in repo.Update
UpdateNotificationExec(n, p, setErr, execErr) ==
    IF p = NoParams
    THEN [n |-> n, err |-> ErrEmptyUpdateOptions, store |-> store, cache |-> cache]
    ELSE IF p.status # Nil /\ ~StatusIsValid(p.status.v)
    THEN [n |-> n, err |-> ErrInvalidStatus, store |-> store, cache |-> cache]
    ELSE LET n1 == IF p.status # Nil THEN [n EXCEPT !.status = p.status.v] ELSE n IN
         IF p.channel # Nil /\ ChannelIsValid(p.channel.v)
         THEN [n |-> n1, err |-> ErrInvalidChannel, store |-> store, cache |-> cache]
         ELSE LET n2 == IF p.channel # Nil THEN [n1 EXCEPT !.channel = p.channel.v] ELSE n1
                  u == RepoUpdate(store, n.id, p)
                  err == IF execErr THEN ErrDb
                         ELSE IF u.noRow THEN ErrNoRowAffected ELSE ErrNil
              IN  IF err # ErrNil
                  THEN [n |-> n2, err |-> SoftNoRow(err), store |-> store, cache |-> cache]
                  ELSE LET m == marshalAndSet(cache, n2, setErr) IN
                       [n |-> n2, err |-> m.err, store |-> u.store, cache |-> m.cache]

\* UpdateNotification when the statement of repo.Update executes
UpdateNotification(n, p, setErr) == UpdateNotificationExec(n, p, setErr, FALSE)

TransitionAllowed(n, allowedStatus) == n.status = allowedStatus

\* transitionStatus up to its status check
TransitionLoad(id, allowedStatus, getErr, setErr) ==
    LET g == GetNotificationByID(id, getErr, setErr) IN
    IF g.err # ErrNil THEN g
    ELSE IF ~TransitionAllowed(g.n, allowedStatus)
    THEN [n |-> g.n, err |-> ErrTransition, cache |-> g.cache, reply |-> g.reply]
    ELSE g

\* ------------------------------------------------------------ Init
IdleCreate == [pc |-> "idle", params |-> Nil, now |-> 0, n |-> Nil, ttl |-> NoTtl,
               err |-> ErrNil, pub |-> "none"]
IdleCancel == [pc |-> "idle", id |-> 0, n |-> Nil, err |-> ErrNil]
IdleWorker == [pc |-> "idle", id |-> 0, n |-> Nil, attempt |-> 0, res |-> "none"]
IdleGet == [pc |-> "idle", id |-> 0, n |-> Nil, err |-> ErrNil, reply |-> "none"]
IdleUpdate == [pc |-> "idle", id |-> 0, p |-> NoParams, err |-> ErrNil, execErr |-> FALSE]
IdleRepo == [ptp |-> [c \in Workers |-> Nil], list |-> Nil]
IdleSend == [pc |-> "idle", res |-> "none"]
IdleSmtp == [mu |-> 0, call |-> [c \in Workers |-> IdleSend],
             msg |-> [c \in Workers |-> "none"]]
IdleRequest == [pc |-> "idle", fault |-> "none", body |-> Nil]
IdleHttp == [errResp |-> [text |-> ""], req |-> [r \in Requests |-> IdleRequest], fatal |-> FALSE]

Init ==
    /\ store = [id \in Ids |-> NoRow]
    /\ cache = [k \in CacheKeys |-> Missing]
    /\ delayq = [id \in Ids |-> 0]
    /\ dispatch = [id \in Ids |-> 0]
    /\ dups = 0
    /\ nextId = 1
    /\ create = IdleCreate
    /\ cancel = IdleCancel
    /\ worker = [w \in Workers |-> IdleWorker]
    /\ cancelOk = {}
    /\ issued = {}
    /\ get = IdleGet
    /\ update = IdleUpdate
    /\ repo = IdleRepo
    /\ ctxDone = FALSE
    /\ smtp = IdleSmtp
    /\ http = IdleHttp

\* ------------------------------------------------------------ CreateNotification
CreateParams ==
    [recipient : Recipients, channel : Channels, payload : Payloads, scheduledAt : 0..MaxSched]

\* the requests of the concurrent system: one schedule inside the grace window at
\* time 0 and one beyond it
SchedPoints == {0, MaxSched}
CoarseParams ==
    [recipient : Recipients, channel : Channels, payload : {[subject |-> "s"]},
     scheduledAt : SchedPoints]

\* validation, repo.Create, marshalAndSet
CreateInsert(params, now, setErr) ==
    /\ create.pc = "idle"
    /\ nextId <= MaxIds
    /\ LET call == [IdleCreate EXCEPT !.params = params, !.now = now] IN
       IF ~ChannelIsValid(params.channel)
       THEN /\ create' = [call EXCEPT !.pc = "returned", !.err = ErrInvalidChannel]
            /\ UNCHANGED <<store, cache, nextId>>
       ELSE IF params.recipient = ""
       THEN /\ create' = [call EXCEPT !.pc = "returned", !.err = ErrEmptyRecipient]
            /\ UNCHANGED <<store, cache, nextId>>
       ELSE LET opt == [recipient |-> params.recipient, channel |-> params.channel,
                        payload |-> params.payload, scheduledAt |-> params.scheduledAt,
                        status |-> Schedule(params.scheduledAt, now).status]
                ttl == Schedule(params.scheduledAt, now).ttl
                n == RepoCreate(nextId, opt)
                m == marshalAndSet(cache, n, setErr)
            IN  /\ store' = [store EXCEPT ![nextId] = Row(n)]
                /\ nextId' = nextId + 1
                /\ cache' = m.cache
                /\ create' = IF m.err # ErrNil
                             THEN [call EXCEPT !.pc = "returned", !.err = m.err, !.ttl = ttl]
                             ELSE [call EXCEPT !.pc = "publish", !.n = n, !.ttl = ttl]
    /\ UNCHANGED <<delayq, dispatch, dups, cancel, worker, cancelOk, issued, get, update, repo,
                   ctxDone, smtp, http>>

\* Publisher.Publish: the messages it leaves in queue:<id>
PublishTwice(q, id) == [q EXCEPT ![id] = @ + 2]
Publish(q, id) == [q EXCEPT ![id] = @ + 1]

\* publisher.Publish and the compensation of its failure
CreatePublish(pubErr) ==
    /\ create.pc = "publish"
    /\ IF ~pubErr
       THEN /\ delayq' = Publish(delayq, create.n.id)
            /\ create' = [create EXCEPT !.pc = "returned", !.pub = "ok"]
            /\ UNCHANGED store
       ELSE LET u == RepoUpdate(store, create.n.id, Rollback(create.n)) IN
            /\ store' = u.store
            /\ create' = IF u.noRow
                         THEN [create EXCEPT !.pc = "returned", !.pub = "failed",
                                             !.n = Nil, !.err = ErrNoRowAffected]
                         ELSE [create EXCEPT !.pc = "returned", !.pub = "failed",
                                             !.n = [create.n EXCEPT !.status = StatusPending]]
            /\ UNCHANGED delayq
    /\ issued' = IF create'.n # Nil THEN issued \cup {create.n.id} ELSE issued
    /\ UNCHANGED <<cache, dispatch, dups, nextId, cancel, worker, cancelOk, get, update, repo,
                   ctxDone, smtp, http>>

\* the handler answers the request
CreateReturn ==
    /\ create.pc = "returned"
    /\ create' = IdleCreate
    /\ UNCHANGED <<store, cache, delayq, dispatch, dups, nextId, cancel, worker, cancelOk, issued, get, update, repo,
                   ctxDone, smtp, http>>

\* ------------------------------------------------------------ Cancel
\* DeleteNotificationHandler -> Cancel -> transitionStatus: load and status check
CancelLoad(id, getErr, setErr) ==
    /\ cancel.pc = "idle"
    /\ id \in issued \/ store[id] = NoRow   \* an id a create has returned, or no row's id
    /\ LET t == TransitionLoad(id, StatusPending, getErr, setErr) IN
       /\ cache' = t.cache
       /\ cancel' = IF t.err # ErrNil
                    THEN [pc |-> "returned", id |-> id, n |-> Nil, err |-> t.err]
                    ELSE [pc |-> "loaded", id |-> id, n |-> t.n, err |-> ErrNil]
    /\ UNCHANGED <<store, delayq, dispatch, dups, nextId, create, worker, cancelOk, issued, get, update, repo,
                   ctxDone, smtp, http>>

\* transitionStatus: UpdateNotification(n, WithStatus(cancelled))
CancelUpdate(setErr) ==
    /\ cancel.pc = "loaded"
    /\ LET u == UpdateNotification(cancel.n, WithStatus(StatusCancelled), setErr) IN
       /\ store' = u.store
       /\ cache' = u.cache
       /\ cancel' = [cancel EXCEPT !.pc = "returned", !.n = Nil, !.err = u.err]
       /\ cancelOk' = IF u.err = ErrNil THEN cancelOk \cup {cancel.id} ELSE cancelOk
    /\ UNCHANGED <<delayq, dispatch, dups, nextId, create, worker, issued, get, update, repo,
                   ctxDone, smtp, http>>

CancelReturn ==
    /\ cancel.pc = "returned"
    /\ cancel' = IdleCancel
    /\ UNCHANGED <<store, cache, delayq, dispatch, dups, nextId, create, worker, cancelOk, issued, get, update, repo,
                   ctxDone, smtp, http>>

\* ------------------------------------------------------------ Get
\* GetNotificationHandler -> GetNotificationByID
Get(id, getErr, setErr) ==
    /\ get.pc = "idle"
    /\ LET g == GetNotificationByID(id, getErr, setErr) IN
       /\ cache' = g.cache
       /\ get' = [pc |-> "returned", id |-> id, n |-> g.n, err |-> g.err, reply |-> g.reply]
    /\ UNCHANGED <<store, delayq, dispatch, dups, nextId, create, cancel, worker, cancelOk,
                   issued, update, repo,
                   ctxDone, smtp, http>>

\* the handler answers the request
GetReturn ==
    /\ get.pc = "returned"
    /\ get' = IdleGet
    /\ UNCHANGED <<store, cache, delayq, dispatch, dups, nextId, create, cancel, worker,
                   cancelOk, issued, update, repo,
                   ctxDone, smtp, http>>

\* ------------------------------------------------------------ Update
\* the option lists of a direct UpdateNotification call
UpdateInputs ==
    {NoParams, WithRetryCountInc, WithStatus(StatusSent), WithStatus("bogus"),
     [WithStatus("bogus") EXCEPT !.channel = [v |-> "sms"]]}
        \cup {WithChannel(c) : c \in Channels}

\* the notification a caller passes for id: the row as it is, or for an id
\* without a row a notification that was never stored
Detached(id) ==
    [id |-> id, recipient |-> "a@b.c", channel |-> ChannelEmail, payload |-> Nil,
     scheduledAt |-> 0, status |-> StatusPending, retryCount |-> 0]
UpdateArg(id) == IF store[id] = NoRow THEN Detached(id) ELSE RepoGetByID(store, id)

\* NotificationService.UpdateNotification called for id with options p
Update(id, p, setErr, execErr) ==
    /\ update.pc = "idle"
    /\ (p.retryCountInc /\ store[id] # NoRow) => store[id].retryCount < MaxRetryCount
    /\ LET u == UpdateNotificationExec(UpdateArg(id), p, setErr, execErr) IN
       /\ store' = u.store
       /\ cache' = u.cache
       /\ update' = [pc |-> "returned", id |-> id, p |-> p, err |-> u.err,
                     execErr |-> execErr]
    /\ UNCHANGED <<delayq, dispatch, dups, nextId, create, cancel, worker, cancelOk, issued,
                   get, repo,
                   ctxDone, smtp, http>>

UpdateReturn ==
    /\ update.pc = "returned"
    /\ update' = IdleUpdate
    /\ UNCHANGED <<store, cache, delayq, dispatch, dups, nextId, create, cancel, worker,
                   cancelOk, issued, get, repo,
                   ctxDone, smtp, http>>

\* ------------------------------------------------------------ DelayBus
\* the message of queue:<id> expires and is dead-lettered onto the dispatch queue
BusExpire(id) ==
    /\ delayq[id] > 0
    /\ delayq' = [delayq EXCEPT ![id] = @ - 1]
    /\ dispatch' = [dispatch EXCEPT ![id] = @ + 1]
    /\ UNCHANGED <<store, cache, dups, nextId, create, cancel, worker, cancelOk, issued, get, update, repo,
                   ctxDone, smtp, http>>

\* at-least-once delivery: the broker delivers a dispatch message once more
BusRedeliver(id) ==
    /\ dups < MaxDup
    /\ dispatch[id] > 0
    /\ dispatch' = [dispatch EXCEPT ![id] = @ + 1]
    /\ dups' = dups + 1
    /\ UNCHANGED <<store, cache, delayq, nextId, create, cancel, worker, cancelOk, issued, get, update, repo,
                   ctxDone, smtp, http>>

\* ------------------------------------------------------------ Worker
\* retry.Do gives up after strategy.Attempts failed calls
RetryExhausted(attempt) == attempt >= Attempts

\* the consumer pool hands a delivery to a free goroutine (the first free one:
\* the goroutines are interchangeable)
FirstIdle(w) ==
    /\ worker[w].pc = "idle"
    /\ \A v \in Workers : v < w => worker[v].pc # "idle"

\* consumerHandler: the body decodes to a job with a valid id
WorkerReceive(w, id) ==
    /\ FirstIdle(w)
    /\ dispatch[id] > 0
    /\ dispatch' = [dispatch EXCEPT ![id] = @ - 1]
    /\ worker' = [worker EXCEPT ![w] = [IdleWorker EXCEPT !.pc = "load", !.id = id]]
    /\ UNCHANGED <<store, cache, delayq, dups, nextId, create, cancel, cancelOk, issued, get, update, repo,
                   ctxDone, smtp, http>>

\* message bodies: bytes that are not JSON, or a JSON object.  The text of a
\* notification_id is [uuid |-> id] when it is the UUID text of id.
PoisonBodies ==
    {[bytes |-> "{"], [json |-> [other |-> 1]],
     [json |-> [notification_id |-> [text |-> "not-a-uuid"]]]}

\* json.Unmarshal(body, &j): Nil is its error; an absent field leaves ""
DecodeJob(body) ==
    IF "json" \notin DOMAIN body THEN Nil
    ELSE IF "notification_id" \in DOMAIN body.json
    THEN [NotificationID |-> body.json.notification_id]
    ELSE [NotificationID |-> [text |-> ""]]

\* uuid.Parse: Nil is its error
ParseUUID(s) == IF "uuid" \in DOMAIN s THEN s.uuid ELSE Nil

\* consumerHandler -> sender for a body that is not a job of the service: the
\* decode or the parse fails and sender returns the error
WorkerPoison(w, body) ==
    /\ FirstIdle(w)
    /\ LET j == DecodeJob(body)
           id == IF j = Nil THEN Nil ELSE ParseUUID(j.NotificationID)
       IN  worker' = [worker EXCEPT ![w] =
              IF id = Nil
              THEN [IdleWorker EXCEPT !.pc = "done", !.res = "nack"]
              ELSE [IdleWorker EXCEPT !.pc = "load", !.id = id]]
    /\ UNCHANGED <<store, cache, delayq, dispatch, dups, nextId, create, cancel, cancelOk,
                   issued, get, update, repo,
                   ctxDone, smtp, http>>

\* sender: the check that ends the handling of a cancelled notification
CancelledCheckOff(n) == FALSE
CancelledCheck(n) == n.status = StatusCancelled

\* sender: GetNotificationByID, the cancelled check and the channel switch.  The
\* error of the load is only logged: n.Status on the nil notification panics and
\* the goroutine stops there.
WorkerLoad(w, getErr, setErr) ==
    /\ worker[w].pc = "load"
    /\ LET g == GetNotificationByID(worker[w].id, getErr \/ ctxDone, setErr) IN
       /\ cache' = g.cache
       /\ worker' = [worker EXCEPT ![w] =
            IF g.n = Nil
            THEN [@ EXCEPT !.pc = "panic"]
            ELSE IF CancelledCheck(g.n)
            THEN [@ EXCEPT !.pc = "done", !.n = g.n, !.res = "ack"]
            ELSE IF g.n.channel = ChannelEmail
            THEN [@ EXCEPT !.pc = "send", !.n = g.n]
            ELSE IF g.n.channel = ChannelTelegram
            THEN [@ EXCEPT !.pc = "markSent", !.n = g.n]
            ELSE [@ EXCEPT !.pc = "done", !.res = "nack"]]
    /\ UNCHANGED <<store, delayq, dispatch, dups, nextId, create, cancel, cancelOk, issued, get, update, repo,
                   ctxDone, smtp, http>>

\* sendEmail: emailSender.Send
WorkerSend(w, sendErr) ==
    /\ worker[w].pc = "send"
    /\ worker' = [worker EXCEPT ![w].pc = IF sendErr THEN "incRetry" ELSE "markSent"]
    /\ UNCHANGED <<store, cache, delayq, dispatch, dups, nextId, create, cancel, cancelOk, issued, get, update, repo,
                   ctxDone, smtp, http>>

\* sendEmail after a failed Send: IncRetryCount, then retry.Do's next attempt or its end
WorkerIncRetry(w, setErr) ==
    /\ worker[w].pc = "incRetry"
    /\ LET u == UpdateNotificationExec(worker[w].n, WithRetryCountInc, setErr, ctxDone)
           attempt == worker[w].attempt + 1
       IN  /\ store' = u.store
           /\ cache' = u.cache
           /\ worker' = [worker EXCEPT ![w] =
                [@ EXCEPT !.n = u.n, !.attempt = attempt,
                          !.pc = IF RetryExhausted(attempt) THEN "failed" ELSE "send"]]
    /\ UNCHANGED <<delayq, dispatch, dups, nextId, create, cancel, cancelOk, issued, get, update, repo,
                   ctxDone, smtp, http>>

\* service.Failed -> transitionStatus: load and status check
WorkerFailedLoad(w, getErr, setErr) ==
    /\ worker[w].pc = "failed"
    /\ LET t == TransitionLoad(worker[w].id, StatusProcessing, getErr \/ ctxDone, setErr) IN
       /\ cache' = t.cache
       /\ worker' = [worker EXCEPT ![w] =
            IF t.err # ErrNil
            THEN [@ EXCEPT !.pc = "done", !.n = Nil, !.attempt = 0, !.res = "nack"]
            ELSE [@ EXCEPT !.pc = "failedUpdate", !.n = t.n]]
    /\ UNCHANGED <<store, delayq, dispatch, dups, nextId, create, cancel, cancelOk, issued, get, update, repo,
                   ctxDone, smtp, http>>

\* transitionStatus: UpdateNotification(n, WithStatus(failed)); sender returns its error
WorkerFailedUpdate(w, setErr) ==
    /\ worker[w].pc = "failedUpdate"
    /\ LET u == UpdateNotificationExec(worker[w].n, WithStatus(StatusFailed), setErr, ctxDone) IN
       /\ store' = u.store
       /\ cache' = u.cache
       /\ worker' = [worker EXCEPT ![w] =
            [@ EXCEPT !.pc = "done", !.n = Nil, !.attempt = 0,
                      !.res = IF u.err = ErrNil THEN "ack" ELSE "nack"]]
    /\ UNCHANGED <<delayq, dispatch, dups, nextId, create, cancel, cancelOk, issued, get, update, repo,
                   ctxDone, smtp, http>>

\* sender: UpdateNotification(n, WithStatus(sent))
WorkerMarkSent(w, setErr) ==
    /\ worker[w].pc = "markSent"
    /\ LET u == UpdateNotificationExec(worker[w].n, WithStatus(StatusSent), setErr, ctxDone) IN
       /\ store' = u.store
       /\ cache' = u.cache
       /\ worker' = [worker EXCEPT ![w] =
            [@ EXCEPT !.pc = "done", !.n = Nil, !.attempt = 0,
                      !.res = IF u.err = ErrNil THEN "ack" ELSE "nack"]]
    /\ UNCHANGED <<delayq, dispatch, dups, nextId, create, cancel, cancelOk, issued, get, update, repo,
                   ctxDone, smtp, http>>

\* the consumer acks (nil) or nacks without requeue (error) and frees the goroutine
WorkerAck(w) ==
    /\ worker[w].pc = "done"
    /\ worker' = [worker EXCEPT ![w] = IdleWorker]
    /\ UNCHANGED <<store, cache, delayq, dispatch, dups, nextId, create, cancel, cancelOk, issued, get, update, repo,
                   ctxDone, smtp, http>>

Next ==
    \/ \E params \in CoarseParams, setErr \in BOOLEAN : CreateInsert(params, 0, setErr)
    \/ \E pubErr \in BOOLEAN : CreatePublish(pubErr)
    \/ CreateReturn
    \/ \E id \in Ids, getErr \in BOOLEAN, setErr \in BOOLEAN : CancelLoad(id, getErr, setErr)
    \/ \E setErr \in BOOLEAN : CancelUpdate(setErr)
    \/ CancelReturn
    \/ \E id \in Ids : BusExpire(id)
    \/ \E id \in Ids : BusRedeliver(id)
    \/ \E w \in Workers, id \in Ids : WorkerReceive(w, id)
    \/ \E w \in Workers, getErr \in BOOLEAN, setErr \in BOOLEAN : WorkerLoad(w, getErr, setErr)
    \/ \E w \in Workers, sendErr \in BOOLEAN : WorkerSend(w, sendErr)
    \/ \E w \in Workers, setErr \in BOOLEAN : WorkerIncRetry(w, setErr)
    \/ \E w \in Workers, getErr \in BOOLEAN, setErr \in BOOLEAN :
          WorkerFailedLoad(w, getErr, setErr)
    \/ \E w \in Workers, setErr \in BOOLEAN : WorkerFailedUpdate(w, setErr)
    \/ \E w \in Workers, setErr \in BOOLEAN : WorkerMarkSent(w, setErr)
    \/ \E w \in Workers : WorkerAck(w)

Spec == Init /\ [][Next]_vars

\* CreateNotification alone, over every schedule and clock reading of the bounds
NextCreate ==
    \/ \E params \in CreateParams, now \in 0..MaxNow, setErr \in BOOLEAN :
          CreateInsert(params, now, setErr)
    \/ \E pubErr \in BOOLEAN : CreatePublish(pubErr)
    \/ CreateReturn

SpecCreate == Init /\ [][NextCreate]_vars

\* The calls in progress run to their end, the bus delivers what it holds and the
\* consumer goroutines keep taking steps.  New requests and redeliveries are free.
Progress ==
    \/ \E pubErr \in BOOLEAN : CreatePublish(pubErr)
    \/ CreateReturn
    \/ \E setErr \in BOOLEAN : CancelUpdate(setErr)
    \/ CancelReturn
    \/ \E id \in Ids : BusExpire(id)
    \/ \E w \in Workers, id \in Ids : WorkerReceive(w, id)
    \/ \E w \in Workers, getErr \in BOOLEAN, setErr \in BOOLEAN : WorkerLoad(w, getErr, setErr)
    \/ \E w \in Workers, sendErr \in BOOLEAN : WorkerSend(w, sendErr)
    \/ \E w \in Workers, setErr \in BOOLEAN : WorkerIncRetry(w, setErr)
    \/ \E w \in Workers, getErr \in BOOLEAN, setErr \in BOOLEAN :
          WorkerFailedLoad(w, getErr, setErr)
    \/ \E w \in Workers, setErr \in BOOLEAN : WorkerFailedUpdate(w, setErr)
    \/ \E w \in Workers, setErr \in BOOLEAN : WorkerMarkSent(w, setErr)
    \/ \E w \in Workers : WorkerAck(w)

LiveSpec == Init /\ [][Next]_vars /\ WF_vars(Progress)

\* One consumer goroutine and a broker that delivers every message once: the
\* handling of a message interleaved with the requests, without a second handler.
NextSolo ==
    \/ \E params \in CoarseParams, setErr \in BOOLEAN : CreateInsert(params, 0, setErr)
    \/ \E pubErr \in BOOLEAN : CreatePublish(pubErr)
    \/ CreateReturn
    \/ \E id \in Ids, getErr \in BOOLEAN, setErr \in BOOLEAN : CancelLoad(id, getErr, setErr)
    \/ \E setErr \in BOOLEAN : CancelUpdate(setErr)
    \/ CancelReturn
    \/ \E id \in Ids : BusExpire(id)
    \/ \E id \in Ids : WorkerReceive(1, id)
    \/ \E getErr \in BOOLEAN, setErr \in BOOLEAN : WorkerLoad(1, getErr, setErr)
    \/ \E sendErr \in BOOLEAN : WorkerSend(1, sendErr)
    \/ \E setErr \in BOOLEAN : WorkerIncRetry(1, setErr)
    \/ \E getErr \in BOOLEAN, setErr \in BOOLEAN : WorkerFailedLoad(1, getErr, setErr)
    \/ \E setErr \in BOOLEAN : WorkerFailedUpdate(1, setErr)
    \/ \E setErr \in BOOLEAN : WorkerMarkSent(1, setErr)
    \/ WorkerAck(1)

SpecSolo == Init /\ [][NextSolo]_vars

\* the signal context handed to Consumer.Start is cancelled (shutdown); the calls
\* a handler makes with it from then on fail: redis and the database return the
\* context's error
CtxCancel ==
    /\ ~ctxDone
    /\ ctxDone' = TRUE
    /\ UNCHANGED <<store, cache, delayq, dispatch, dups, nextId, create, cancel, worker,
                   cancelOk, issued, get, update, repo, smtp, http>>

\* one consumer goroutine whose context may be cancelled at any point
NextCtx == NextSolo \/ CtxCancel

SpecCtx == Init /\ [][NextCtx]_vars

\* ------------------------------------------------------------ SMTPSender
\* the sendMessage goroutines that are using s.client
Exchanging == {c \in Workers : smtp.msg[c] = "running"}

\* Send: s.mu.Lock()
SendLock(c) ==
    /\ smtp.call[c].pc = "idle"
    /\ smtp.mu = 0
    /\ smtp' = [smtp EXCEPT !.mu = c, !.call[c].pc = "locked"]
    /\ UNCHANGED <<store, cache, delayq, dispatch, dups, nextId, create, cancel, worker,
                   cancelOk, issued, get, update, repo, ctxDone, http>>

\* Send: ensureConnected, then the goroutine that runs sendMessage is started;
\* a failed connect returns the error and the deferred Unlock runs
SendStart(c, connErr) ==
    /\ smtp.call[c].pc = "locked"
    /\ smtp' = IF connErr
               THEN [smtp EXCEPT !.mu = 0, !.call[c] = [pc |-> "returned", res |-> "err"]]
               ELSE [smtp EXCEPT !.call[c].pc = "select", !.msg[c] = "running"]
    /\ UNCHANGED <<store, cache, delayq, dispatch, dups, nextId, create, cancel, worker,
                   cancelOk, issued, get, update, repo, ctxDone, http>>

\* the goroutine: sendMessage returns and its result goes into the buffered done
SendMessageEnd(c, res) ==
    /\ smtp.msg[c] = "running"
    /\ smtp' = [smtp EXCEPT !.msg[c] = res]
    /\ UNCHANGED <<store, cache, delayq, dispatch, dups, nextId, create, cancel, worker,
                   cancelOk, issued, get, update, repo, ctxDone, http>>

\* Send: the select takes the result from done; the deferred Unlock runs
SendReturnDone(c) ==
    /\ smtp.call[c].pc = "select"
    /\ smtp.msg[c] \in {"ok", "err"}
    /\ smtp' = [smtp EXCEPT !.mu = 0, !.call[c] = [pc |-> "returned", res |-> smtp.msg[c]]]
    /\ UNCHANGED <<store, cache, delayq, dispatch, dups, nextId, create, cancel, worker,
                   cancelOk, issued, get, update, repo, ctxDone, http>>

\* Send: the select takes ctx.Done() and returns ctx.Err(); the deferred Unlock
\* runs, the goroutine is left to itself
SendReturnCtx(c) ==
    /\ smtp.call[c].pc = "select"
    /\ ctxDone
    /\ smtp' = [smtp EXCEPT !.mu = 0, !.call[c] = [pc |-> "returned", res |-> "ctx"]]
    /\ UNCHANGED <<store, cache, delayq, dispatch, dups, nextId, create, cancel, worker,
                   cancelOk, issued, get, update, repo, ctxDone, http>>

\* concurrent Send calls of the consumer goroutines, one call each, on one
\* SMTPSender, with a context that may be cancelled at any point
NextSmtp ==
    \/ \E c \in Workers : SendLock(c)
    \/ \E c \in Workers, connErr \in BOOLEAN : SendStart(c, connErr)
    \/ \E c \in Workers, res \in {"ok", "err"} : SendMessageEnd(c, res)
    \/ \E c \in Workers : SendReturnDone(c)
    \/ \E c \in Workers : SendReturnCtx(c)
    \/ CtxCancel

SpecSmtp == Init /\ [][NextSmtp]_vars

\* ------------------------------------------------------------ HTTP handlers
\* channel names CreateNotificationHandler rejects
BadChannels == {"sms", "push"}

\* fmt.Sprintf("... %s ...", req.Channel): the text written for a rejected channel
ChannelMessage(ch) == [text |-> "channel not supported", channel |-> ch]

\* CreateNotificationHandler: a request passes binding and validation and
\* fails the channel check
HandlerReject(r, ch) ==
    /\ ~http.fatal
    /\ http.req[r].pc = "idle"
    /\ ~ChannelIsValid(ch)
    /\ http' = [http EXCEPT !.req[r] = [pc |-> "write", fault |-> ch, body |-> Nil]]
    /\ UNCHANGED <<store, cache, delayq, dispatch, dups, nextId, create, cancel, worker,
                   cancelOk, issued, get, update, repo, ctxDone, smtp>>

\* another handler goroutine is about to assign to the shared map
WriterBeside(r) == \E q \in Requests : q # r /\ http.req[q].pc = "write"

\* ErrResponceMessage["error"] = ...: an assignment to the package-level map
\* without synchronisation.  Beside another goroutine's assignment the runtime
\* may stop the process (fatal error: concurrent map writes).
HandlerWrite(r, crash) ==
    /\ ~http.fatal
    /\ http.req[r].pc = "write"
    /\ crash => WriterBeside(r)
    /\ http' = IF crash
               THEN [http EXCEPT !.fatal = TRUE]
               ELSE [http EXCEPT !.errResp = ChannelMessage(http.req[r].fault),
                                 !.req[r].pc = "respond"]
    /\ UNCHANGED <<store, cache, delayq, dispatch, dups, nextId, create, cancel, worker,
                   cancelOk, issued, get, update, repo, ctxDone, smtp>>

\* c.JSON(http.StatusBadRequest, ErrResponceMessage): the map is read and
\* serialised as it is at that moment.  Beside another goroutine's assignment
\* the runtime may stop the process (concurrent map read and map write).
HandlerRespond(r, crash) ==
    /\ ~http.fatal
    /\ http.req[r].pc = "respond"
    /\ crash => WriterBeside(r)
    /\ http' = IF crash
               THEN [http EXCEPT !.fatal = TRUE]
               ELSE [http EXCEPT !.req[r].pc = "responded", !.req[r].body = http.errResp]
    /\ UNCHANGED <<store, cache, delayq, dispatch, dups, nextId, create, cancel, worker,
                   cancelOk, issued, get, update, repo, ctxDone, smtp>>

\* the response has been sent; the connection serves its next request
HandlerEnd(r) ==
    /\ ~http.fatal
    /\ http.req[r].pc = "responded"
    /\ http' = [http EXCEPT !.req[r] = IdleRequest]
    /\ UNCHANGED <<store, cache, delayq, dispatch, dups, nextId, create, cancel, worker,
                   cancelOk, issued, get, update, repo, ctxDone, smtp>>

\* concurrent create requests that fail the channel check
NextHttp ==
    \/ \E r \in Requests, ch \in BadChannels : HandlerReject(r, ch)
    \/ \E r \in Requests, crash \in BOOLEAN : HandlerWrite(r, crash)
    \/ \E r \in Requests, crash \in BOOLEAN : HandlerRespond(r, crash)
    \/ \E r \in Requests : HandlerEnd(r)

SpecHttp == Init /\ [][NextHttp]_vars

\* GetNotificationByID alone, over the rows the Store may hold and the values
\* the redis server may hold under the key that is read and the key that is written
Unparseable == [bytes |-> "{"]
StoredNotifications ==
    [id : Ids, recipient : {"a@b.c"}, channel : {ChannelEmail}, payload : Payloads,
     scheduledAt : {0}, status : {StatusPending, StatusCancelled}, retryCount : {0, 1}]
RowsOf(id) == {Row(n) : n \in {x \in StoredNotifications : x.id = id}} \cup {NoRow}
CachedOf(id) ==
    {Marshal(n) : n \in {x \in StoredNotifications : x.id = id}} \cup {Missing, Unparseable}

InitGet ==
    /\ store \in {st \in [Ids -> UNION {RowsOf(id) : id \in Ids}] :
                     \A id \in Ids : st[id] \in RowsOf(id)}
    /\ cache \in {c \in [CacheKeys -> UNION {CachedOf(id) : id \in Ids}] :
                     \A id \in Ids : /\ c[GetKey(id)] \in CachedOf(id)
                                     /\ c[SetKey(id)] = Missing}
    /\ delayq = [id \in Ids |-> 0]
    /\ dispatch = [id \in Ids |-> 0]
    /\ dups = 0
    /\ nextId = MaxIds + 1
    /\ create = IdleCreate
    /\ cancel = IdleCancel
    /\ worker = [w \in Workers |-> IdleWorker]
    /\ cancelOk = {}
    /\ issued = {id \in Ids : store[id] # NoRow}
    /\ get = IdleGet
    /\ update = IdleUpdate
    /\ repo = IdleRepo
    /\ ctxDone = FALSE
    /\ smtp = IdleSmtp
    /\ http = IdleHttp

NextGet ==
    \/ \E id \in Ids, getErr \in BOOLEAN, setErr \in BOOLEAN : Get(id, getErr, setErr)
    \/ GetReturn

SpecGet == InitGet /\ [][NextGet]_vars

\* UpdateNotification alone: each id has a pending row or no row
InitUpdate ==
    /\ store \in {st \in [Ids -> {NoRow} \cup {Row(Detached(id)) : id \in Ids}] :
                     \A id \in Ids : st[id] \in {NoRow, Row(Detached(id))}}
    /\ cache = [k \in CacheKeys |-> Missing]
    /\ delayq = [id \in Ids |-> 0]
    /\ dispatch = [id \in Ids |-> 0]
    /\ dups = 0
    /\ nextId = MaxIds + 1
    /\ create = IdleCreate
    /\ cancel = IdleCancel
    /\ worker = [w \in Workers |-> IdleWorker]
    /\ cancelOk = {}
    /\ issued = {id \in Ids : store[id] # NoRow}
    /\ get = IdleGet
    /\ update = IdleUpdate
    /\ repo = IdleRepo
    /\ ctxDone = FALSE
    /\ smtp = IdleSmtp
    /\ http = IdleHttp

NextUpdate ==
    \/ \E id \in Ids, p \in UpdateInputs, setErr \in BOOLEAN, execErr \in BOOLEAN :
          Update(id, p, setErr, execErr)
    \/ UpdateReturn

SpecUpdate == InitUpdate /\ [][NextUpdate]_vars

\* CreateNotification and GetNotificationByID requests, from the empty system
NextRoundTrip == NextCreate \/ NextGet

SpecRoundTrip == Init /\ [][NextRoundTrip]_vars

\* ------------------------------------------------------------ Store calls
\* The statements of PostgresRepo that no service method calls, run against a
\* table whose rows carry updated_at.  Clock readings lie around StuckThreshold
\* after the rows' updated_at, so that NOW() - 10 minutes falls among them.
Clock == {StuckThreshold + d : d \in 0..MaxNow}

TimedRows(id) ==
    {[id |-> id, recipient |-> "a@b.c", channel |-> ChannelEmail, payload |-> Marshal(Nil),
      scheduledAt |-> s, status |-> st, retryCount |-> 0, updatedAt |-> u] :
        s \in 0..MaxSched, st \in Statuses, u \in 0..MaxNow}

InitRepo ==
    /\ store \in {st \in [Ids -> {NoRow} \cup UNION {TimedRows(id) : id \in Ids}] :
                     \A id \in Ids : st[id] \in {NoRow} \cup TimedRows(id)}
    /\ cache = [k \in CacheKeys |-> Missing]
    /\ delayq = [id \in Ids |-> 0]
    /\ dispatch = [id \in Ids |-> 0]
    /\ dups = 0
    /\ nextId = MaxIds + 1
    /\ create = IdleCreate
    /\ cancel = IdleCancel
    /\ worker = [w \in Workers |-> IdleWorker]
    /\ cancelOk = {}
    /\ issued = {id \in Ids : store[id] # NoRow}
    /\ get = IdleGet
    /\ update = IdleUpdate
    /\ repo = IdleRepo
    /\ ctxDone = FALSE
    /\ smtp = IdleSmtp
    /\ http = IdleHttp

\* PostgresRepo.PendingToProcess called by c for id at clock reading now
PendingToProcess(c, id, now) ==
    /\ repo.ptp[c] = Nil
    /\ LET r == RepoPendingToProcess(store, id, now) IN
       /\ store' = r.store
       /\ repo' = [repo EXCEPT !.ptp[c] = [id |-> id, ok |-> r.ok]]
    /\ UNCHANGED <<cache, delayq, dispatch, dups, nextId, create, cancel, worker, cancelOk,
                   issued, get, update,
                   ctxDone, smtp, http>>

\* PostgresRepo.ListPendingAndProcessingBefore(t, limit, offset) at clock reading
\* now; queryErr is a failing QueryContext
ListPendingAndProcessingBefore(t, now, limit, offset, queryErr) ==
    /\ repo.list = Nil
    /\ LET call == [t |-> t, now |-> now, limit |-> limit, offset |-> offset,
                    queryErr |-> queryErr] IN
       IF queryErr
       THEN repo' = [repo EXCEPT !.list = [call |-> call, rows |-> {}, err |-> ErrDb]]
       ELSE \E S \in ListResults(store, t, now, limit, offset) :
              repo' = [repo EXCEPT !.list =
                         IF S = {}
                         THEN [call |-> call, rows |-> EmptyListResult.rows,
                               err |-> EmptyListResult.err]
                         ELSE [call |-> call, rows |-> {RepoGetByID(store, id) : id \in S},
                               err |-> ErrNil]]
    /\ UNCHANGED <<store, cache, delayq, dispatch, dups, nextId, create, cancel, worker,
                   cancelOk, issued, get, update,
                   ctxDone, smtp, http>>

\* the caller has taken the list
ListReturn ==
    /\ repo.list # Nil
    /\ repo' = [repo EXCEPT !.list = Nil]
    /\ UNCHANGED <<store, cache, delayq, dispatch, dups, nextId, create, cancel, worker,
                   cancelOk, issued, get, update,
                   ctxDone, smtp, http>>

\* concurrent PendingToProcess calls, one per caller
NextClaim == \E c \in Workers, id \in Ids, now \in Clock : PendingToProcess(c, id, now)

SpecClaim == InitRepo /\ [][NextClaim]_vars

NextList ==
    \/ \E t \in 0..MaxSched, now \in Clock, limit \in 0..MaxIds, offset \in 0..MaxIds,
          queryErr \in BOOLEAN : ListPendingAndProcessingBefore(t, now, limit, offset, queryErr)
    \/ ListReturn

SpecList == InitRepo /\ [][NextList]_vars

\* ------------------------------------------------------------ consumer alone
\* One consumer goroutine and a table written also from outside the service
\* (the channel column is TEXT with no constraint): each id has a row of any
\* channel, pending, processing or cancelled, with its dispatch message delivered
\* once;
\* other messages on the queue are not jobs.
InitConsume ==
    /\ store \in {st \in [Ids -> UNION {{Row([Detached(id) EXCEPT !.channel = c, !.status = s]) :
                                           c \in Channels,
                                           s \in {StatusPending, StatusProcessing,
                                                  StatusCancelled}} :
                                        id \in Ids}] :
                     \A id \in Ids : st[id].id = id}
    /\ cache = [k \in CacheKeys |-> Missing]
    /\ delayq = [id \in Ids |-> 0]
    /\ dispatch = [id \in Ids |-> 1]
    /\ dups = 0
    /\ nextId = MaxIds + 1
    /\ create = IdleCreate
    /\ cancel = IdleCancel
    /\ worker = [w \in Workers |-> IdleWorker]
    /\ cancelOk = {}
    /\ issued = Ids
    /\ get = IdleGet
    /\ update = IdleUpdate
    /\ repo = IdleRepo
    /\ ctxDone = FALSE
    /\ smtp = IdleSmtp
    /\ http = IdleHttp

NextConsume ==
    \/ \E id \in Ids : WorkerReceive(1, id)
    \/ \E body \in PoisonBodies : WorkerPoison(1, body)
    \/ \E getErr \in BOOLEAN, setErr \in BOOLEAN : WorkerLoad(1, getErr, setErr)
    \/ \E sendErr \in BOOLEAN : WorkerSend(1, sendErr)
    \/ \E setErr \in BOOLEAN : WorkerIncRetry(1, setErr)
    \/ \E getErr \in BOOLEAN, setErr \in BOOLEAN : WorkerFailedLoad(1, getErr, setErr)
    \/ \E setErr \in BOOLEAN : WorkerFailedUpdate(1, setErr)
    \/ \E setErr \in BOOLEAN : WorkerMarkSent(1, setErr)
    \/ WorkerAck(1)

SpecConsume == InitConsume /\ [][NextConsume]_vars

\* ================================================================ claims
Terminal == {StatusSent, StatusFailed, StatusCancelled}

\* the worker w has called the Sender for the message it is handling
SenderInvoked(w) ==
    /\ worker[w].n # Nil
    /\ worker[w].n.channel = ChannelEmail
    /\ \/ worker[w].pc \in {"incRetry", "failed"}
       \/ worker[w].attempt > 0
       \/ worker[w].pc = "markSent"

\* a Sender call of worker w for id returns success in this step
SendSucceeds(w, id) ==
    /\ worker[w].id = id
    /\ worker[w].pc = "send"
    /\ worker'[w].pc = "markSent"

Permitted ==
    {<<"none", StatusPending>>, <<"none", StatusProcessing>>,
     <<StatusPending, StatusProcessing>>, <<StatusPending, StatusCancelled>>,
     <<StatusProcessing, StatusSent>>, <<StatusProcessing, StatusFailed>>,
     <<StatusProcessing, StatusPending>>}

\* C1: every change of a notification's status in the Store is a permitted
\* transition (none->pending, none->processing, pending->processing,
\* pending->cancelled, processing->sent, processing->failed, and
\* processing->pending only as the rollback of a create); in particular no row
\* goes from pending to sent.
C1_PermittedTransitions ==
    [][\A id \in Ids :
         StatusOf(store, id) # StatusOf(store', id) =>
            /\ <<StatusOf(store, id), StatusOf(store', id)>> \in Permitted
            /\ (StatusOf(store, id) = StatusProcessing /\ StatusOf(store', id) = StatusPending)
                  => create.pc = "publish"]_vars

\* C2: once Cancel(id) has returned success, no Sender call for id succeeds and
\* the Store status of id stays cancelled.
C2_CancelledNeverDelivered ==
    [][\A id \in cancelOk :
         /\ StatusOf(store', id) = StatusCancelled
         /\ \A w \in Workers : ~SendSucceeds(w, id)]_vars

\* C3: of two workers handling dispatch messages for the same notification,
\* which both loaded as pending, at most one invokes the Sender.
C3_OneSenderPerNotification ==
    \A w1, w2 \in Workers :
        (/\ w1 # w2
         /\ worker[w1].n # Nil /\ worker[w2].n # Nil
         /\ worker[w1].id = worker[w2].id
         /\ worker[w1].n.status = StatusPending
         /\ worker[w2].n.status = StatusPending)
        => ~(SenderInvoked(w1) /\ SenderInvoked(w2))

\* C4: when a worker has finished handling its dispatch message, the Store status
\* of the notification is sent, failed or cancelled, never still pending or
\* processing.
C4_HandledIsTerminal ==
    [][\A w \in Workers :
         (worker[w].pc # "done" /\ worker'[w].pc = "done")
            => StatusOf(store', worker[w].id) \in Terminal]_vars

\* C5: a notification left pending because its create-time publish failed is
\* eventually published to the DelayBus again (a message for it is in flight)
\* unless it has left pending, without any further caller action.
C5_RepublishedByRecovery ==
    \A id \in Ids :
        (create.pc = "returned" /\ create.pub = "failed" /\ create.n # Nil /\ create.n.id = id)
            ~> (delayq[id] > 0 \/ dispatch[id] > 0 \/ StatusOf(store, id) # StatusPending)

\* C6: for a valid create at time now, scheduledAt < now + 2 gives a row inserted
\* as processing and a publish ttl of exactly 2; otherwise the row is inserted as
\* pending and the ttl is scheduledAt - (now + 2), which is not negative.
C6_InitialStatusAndTtl ==
    create.pc = "publish" =>
        LET scheduledAt == create.params.scheduledAt
            inserted == store[create.n.id]
        IN  IF scheduledAt < create.now + 2
            THEN inserted.status = "processing" /\ create.ttl = 2
            ELSE /\ inserted.status = "pending"
                 /\ create.ttl = scheduledAt - (create.now + 2)
                 /\ create.ttl >= 0

C6_Witness ==
    /\ create.pc = "publish"
    /\ create.params.scheduledAt = create.now + 2
    /\ create.now > 0
    /\ store[create.n.id].status = "pending"
    /\ create.ttl = 0

\* C7: a create with a channel outside {email, telegram} returns InvalidChannel,
\* and one with a valid channel and an empty recipient returns EmptyRecipient;
\* both return no notification, insert no row, write no Cache entry and publish
\* nothing.
C7_InvalidCreateNoEffect ==
    [][(create.pc = "idle" /\ create'.pc # "idle") =>
         LET p == create'.params
             rejected(err) ==
                 /\ create'.pc = "returned"
                 /\ create'.err = err
                 /\ create'.n = Nil
                 /\ create'.pub = "none"
                 /\ UNCHANGED <<store, cache, delayq, dispatch>>
         IN  /\ p.channel \notin {"email", "telegram"} => rejected(ErrInvalidChannel)
             /\ (p.channel \in {"email", "telegram"} /\ p.recipient = "")
                    => rejected(ErrEmptyRecipient)]_vars

C7_Witness ==
    /\ create.pc = "returned"
    /\ create.params.channel = "sms"
    /\ create.err = ErrInvalidChannel
    /\ \A id \in Ids : store[id] = NoRow

\* C8: when the publish of a create fails, the stored status is pending whatever
\* the initial status was, and the caller gets the notification with status
\* pending and no error.
C8_PublishFailureRollsBack ==
    (create.pc = "returned" /\ create.pub = "failed") =>
        /\ create.err = ErrNil
        /\ create.n # Nil
        /\ create.n.status = "pending"
        /\ store[create.n.id].status = "pending"

C8_Witness ==
    /\ create.pc = "returned"
    /\ create.pub = "failed"
    /\ create.params.scheduledAt < create.now + 2
    /\ create.n # Nil
    /\ store[create.n.id].status = "pending"

\* C9: a create whose Store insert succeeded goes on to publish and returns no
\* error, whether or not the Cache write failed.
C9_CacheFailureDoesNotBlock ==
    [][(create.pc = "idle" /\ store' # store) =>
         (create'.err = ErrNil /\ create'.pc = "publish")]_vars

\* the steps of Cancel and of Failed
CancelRejectedAtLoad == cancel.pc = "idle" /\ cancel'.pc = "returned"
CancelSucceeds == cancel.pc # "returned" /\ cancel'.pc = "returned" /\ cancel'.err = ErrNil
FailedRejectedAtLoad(w) == worker[w].pc = "failed" /\ worker'[w].pc = "done"
FailedSucceeds(w) ==
    worker[w].pc \in {"failed", "failedUpdate"} /\ worker'[w].pc = "done" /\ worker'[w].res = "ack"

\* C10: Cancel succeeds only when the current status is pending and
\* Failed only when it is processing; on any other current status the call
\* returns an error and leaves the Store row and the Cache unchanged.
C10_TransitionPreconditions ==
    [][/\ CancelSucceeds => StatusOf(store, cancel'.id) = StatusPending
       /\ (CancelRejectedAtLoad /\ StatusOf(store, cancel'.id) # StatusPending)
             => (cancel'.err # ErrNil /\ store' = store /\ cache' = cache)
       /\ \A w \in Workers :
            /\ FailedSucceeds(w) => StatusOf(store, worker[w].id) = StatusProcessing
            /\ (FailedRejectedAtLoad(w) /\ StatusOf(store, worker[w].id) # StatusProcessing)
                  => (worker'[w].res = "nack" /\ store' = store /\ cache' = cache)]_vars

\* C11: when a worker that loaded its notification as pending ends the handling
\* after the Sender failed on all Attempts attempts (the service.Failed path), the
\* Store row has status failed and retryCount Attempts.
C11_ExhaustedRetriesFail ==
    [][\A w \in Workers :
         (/\ worker[w].pc \in {"failed", "failedUpdate"}
          /\ worker[w].n # Nil /\ worker[w].n.status = StatusPending
          /\ worker'[w].pc = "done")
            => /\ store'[worker[w].id].status = StatusFailed
               /\ store'[worker[w].id].retryCount = Attempts]_vars

\* C12: a worker invokes the Sender for a notification only after the claim has
\* moved the row from pending to processing: at every Sender call the Store
\* status of the notification is processing.
C12_ClaimBeforeSend ==
    [][\A w \in Workers :
         (worker[w].pc = "send" /\ worker'[w].pc # "send")
            => StatusOf(store, worker[w].id) = StatusProcessing]_vars

\* a worker's load (GetNotificationByID in sender) that returned the notification
LoadReturns(w) == worker[w].pc = "load" /\ worker'[w].pc \notin {"load", "panic"}

GetStep(id) == get.pc = "idle" /\ get'.pc = "returned" /\ get'.id = id

\* C14: GetNotificationByID is read-through.  When redis.Get answers with bytes
\* that parse, the call returns the cached notification, whatever the Store holds,
\* and writes nothing.  When it answers redis.Nil and the Store has the row, the
\* call writes the row to the Cache under notification:<id> and returns it (or
\* returns the error of that Cache write, with the Cache as it was).
C14_ReadThrough ==
    [][\A id \in Ids : GetStep(id) =>
         /\ (get'.reply = "data" /\ cache[GetKey(id)] # Unparseable)
               => /\ get'.err = ErrNil
                  /\ get'.n = cache[GetKey(id)].json
                  /\ store' = store /\ cache' = cache
         /\ (get'.reply = "nil" /\ store[id] # NoRow)
               => /\ store' = store
                  /\ \/ /\ get'.err = ErrNil
                        /\ get'.n = [store[id] EXCEPT !.payload = @.json]
                        /\ cache' = [cache EXCEPT ![<<"notification:", id>>] = [json |-> get'.n]]
                     \/ /\ get'.err = ErrRedis
                        /\ get'.n = Nil
                        /\ cache' = cache]_vars

\* a miss that filled the Cache, and a hit on an entry that differs from the Store row
C14_MissFills ==
    /\ get.pc = "returned" /\ get.reply = "nil" /\ get.err = ErrNil
    /\ get.n # Nil /\ get.n.status = StatusCancelled
    /\ cache[<<"notification:", get.id>>] = [json |-> get.n]

C14_Witness ==
    /\ get.pc = "returned" /\ get.reply = "data" /\ get.err = ErrNil
    /\ get.n # Nil /\ store[get.id] # NoRow
    /\ get.n.status # store[get.id].status

\* C15: GetNotificationByID for an id with no Cache entry and no Store row
\* returns NotFound and no notification, and writes neither Cache nor Store.
C15_AbsentIsNotFound ==
    [][\A id \in Ids :
         (GetStep(id) /\ get'.reply = "nil" /\ store[id] = NoRow)
            => /\ get'.err = "notification not found"
               /\ get'.n = Nil
               /\ store' = store /\ cache' = cache]_vars

C15_Witness ==
    /\ get.pc = "returned" /\ get.reply = "nil"
    /\ store[get.id] = NoRow
    /\ get.err = "notification not found" /\ get.n = Nil
    /\ \A k \in CacheKeys : k[2] = get.id => cache[k] = Missing

\* C16: when the Cache answers with bytes that do not parse as a notification,
\* GetNotificationByID treats it as a miss: it returns the Store row, or NotFound
\* when there is none; it never returns success with no notification.
C16_UnparseableIsMiss ==
    [][\A id \in Ids :
         (GetStep(id) /\ get'.reply = "data" /\ cache[GetKey(id)] = Unparseable)
            => /\ ~(get'.err = ErrNil /\ get'.n = Nil)
               /\ IF store[id] = NoRow
                  THEN get'.err = ErrNotFound
                  ELSE get'.err = ErrNil => get'.n = RepoGetByID(store, id)]_vars

Coherent(id) ==
    /\ cache[SetKey(id)] # Missing
    /\ cache[SetKey(id)].json.status = store[id].status
    /\ cache[SetKey(id)].json.retryCount = store[id].retryCount

\* C18: cache coherence.  After a Service mutation of a notification has returned
\* success (here CreateNotification, including its publish-failure rollback), the
\* Cache entry of the id equals the Store row on status and retryCount.
C18_CacheCoherence ==
    (create.pc = "returned" /\ create.err = ErrNil /\ create.n # Nil) => Coherent(create.n.id)

\* C19: the Store retryCount of every notification is at least 0, is 0 when the
\* row is inserted, and no step decreases it (and no step removes the row).
C19_RetryCountMonotone ==
    [][\A id \in Ids :
         /\ store'[id] # NoRow => store'[id].retryCount >= 0
         /\ (store[id] = NoRow /\ store'[id] # NoRow) => store'[id].retryCount = 0
         /\ store[id] # NoRow
               => (store'[id] # NoRow /\ store'[id].retryCount >= store[id].retryCount)]_vars

C19_Witness ==
    \E id \in Ids : store[id] # NoRow /\ store[id].retryCount = Attempts

\* an UpdateNotification call with options p returns in this step
UpdateStep(p) == update.pc = "idle" /\ update'.pc = "returned" /\ update'.p = p

\* C20: UpdateNotification with a channel change accepts every channel of
\* {email, telegram} (the stored channel becomes it) and rejects every other
\* channel with InvalidChannel, leaving the Store unchanged.
C20_ChannelChangeValidated ==
    [][\A c \in Channels : UpdateStep(WithChannel(c)) =>
         IF c \in {"email", "telegram"}
         THEN /\ update'.err # "invalid channel"
              /\ store[update'.id] # NoRow => store'[update'.id].channel = c
         ELSE /\ update'.err = "invalid channel"
              /\ store' = store]_vars

\* C21: UpdateNotification with no option returns the empty-options error, and
\* with a status outside the five tags returns InvalidStatus (whatever else the
\* options change); in both cases neither the Store nor the Cache is written.
C21_RejectedUpdateWritesNothing ==
    [][\A p \in UpdateInputs : UpdateStep(p) =>
         /\ p = NoParams
               => /\ update'.err = "no update options provided"
                  /\ store' = store /\ cache' = cache
         /\ (p.status # Nil
             /\ p.status.v \notin {"pending", "processing", "sent", "failed", "cancelled"})
               => /\ update'.err = "invalid status"
                  /\ store' = store /\ cache' = cache]_vars

C21_Witness ==
    /\ update.pc = "returned"
    /\ update.p.status # Nil /\ update.p.status.v = "bogus" /\ update.p.channel # Nil
    /\ update.err = "invalid status"
    /\ store[update.id] # NoRow
    /\ store[update.id].status = StatusPending
    /\ store[update.id].channel = ChannelEmail

\* the callers whose PendingToProcess(id) has returned true
Winners(r, id) == {c \in Workers : r.ptp[c] # Nil /\ r.ptp[c].id = id /\ r.ptp[c].ok}

\* a PendingToProcess(id) call of c returns in this step
ClaimStep(c, id) == repo.ptp[c] = Nil /\ repo'.ptp[c] # Nil /\ repo'.ptp[c].id = id

\* C22: PendingToProcess is an atomic compare-and-set.  A call returns true
\* exactly when the row's status was pending, and then the status becomes
\* processing; otherwise it returns false and the table is unchanged.  Of the
\* concurrent calls for one id, the call that finds it pending is the only one
\* that returns true.
C22_ClaimIsCompareAndSet ==
    [][\A c \in Workers, id \in Ids : ClaimStep(c, id) =>
         /\ repo'.ptp[c].ok = (StatusOf(store, id) = "pending")
         /\ IF repo'.ptp[c].ok
            THEN /\ store'[id].status = "processing"
                 /\ \A other \in Ids \ {id} : store'[other] = store[other]
                 /\ Winners(repo', id) = {c}
            ELSE /\ store' = store
                 /\ Winners(repo', id) = Winners(repo, id)
         /\ Cardinality(Winners(repo', id)) <= 1]_vars

C22_Witness ==
    \E id \in Ids :
        /\ \A c \in Workers : repo.ptp[c] # Nil /\ repo.ptp[c].id = id
        /\ Cardinality(Winners(repo, id)) = 1
        /\ store[id].status = StatusProcessing

\* a ListPendingAndProcessingBefore call returns in this step
ListStep == repo.list = Nil /\ repo'.list # Nil

\* the rows of the table that are due at cutoff t or stuck at clock reading now
DueOrStuck(t, now) ==
    {id \in Ids : /\ store[id] # NoRow
                  /\ \/ (store[id].status = "pending" /\ store[id].scheduledAt <= t)
                     \/ (store[id].status = "processing" /\ store[id].updatedAt < now - 600)}

C24_EmptyListIsNotFound ==
    [][ListStep =>
         LET l == repo'.list IN
         /\ (~l.call.queryErr /\ DueOrStuck(l.call.t, l.call.now) = {})
               => (l.rows = {} /\ l.err = "notification not found")
         /\ l.call.queryErr => (l.err # ErrNil /\ l.err # "notification not found")]_vars

C24_Witness ==
    /\ repo.list # Nil
    /\ ~repo.list.call.queryErr
    /\ repo.list.rows = {}
    /\ repo.list.err = "notification not found"
    /\ \E id \in Ids : store[id] # NoRow /\ store[id].status = StatusSent
    /\ DueOrStuck(repo.list.call.t, repo.list.call.now) = {}

\* worker w ends the handling of a message whose notification it loaded with status s
EndsHandling(w, s) ==
    /\ worker[w].n # Nil /\ worker[w].n.status = s
    /\ worker[w].pc # "done" /\ worker'[w].pc = "done"

\* C25: a worker that loads a notification already in processing invokes the
\* Sender next, with no claim step (the load changes no Store row), and when it
\* ends the handling the row is sent if the Sender succeeded and failed if the
\* retry budget was exhausted.
C25_ProcessingIsSentOrFailed ==
    [][\A w \in Workers :
         /\ (LoadReturns(w) /\ StatusOf(store, worker[w].id) = StatusProcessing)
               => (worker'[w].pc = "send" /\ store' = store)
         /\ EndsHandling(w, StatusProcessing)
               => IF worker[w].pc = "markSent"
                  THEN StatusOf(store', worker[w].id) = StatusSent
                  ELSE StatusOf(store', worker[w].id) = StatusFailed]_vars

\* C26: the Store status of a notification becomes sent only in the step of a
\* worker whose Sender call for it has returned success, whatever the channel.
C26_SentOnlyAfterSend ==
    [][\A id \in Ids :
         (StatusOf(store, id) # StatusSent /\ StatusOf(store', id) = StatusSent)
            => \E w \in Workers :
                  worker[w].id = id /\ worker[w].pc = "markSent" /\ SenderInvoked(w)]_vars

\* C27: a worker that loads a notification whose status is sent, failed or
\* cancelled ends the handling there, without invoking the Sender, and no step
\* of that handling changes the Store status.
C27_TerminalRedeliveryIsNoOp ==
    [][\A w \in Workers :
         /\ (LoadReturns(w) /\ StatusOf(store, worker[w].id) \in Terminal)
               => (worker'[w].pc = "done" /\ store' = store)
         /\ (worker[w].n # Nil /\ worker[w].n.status \in Terminal /\ worker'[w] # worker[w])
               => StatusOf(store', worker[w].id) = StatusOf(store, worker[w].id)]_vars

\* C28: when the load of a worker yields no notification (the id has no row, or
\* the Cache or the Store failed), the handler returns there: it does not crash
\* and it invokes no Sender.
C28_LoadErrorIsSwallowed ==
    [][\A w \in Workers :
         (worker[w].pc = "load" /\ worker'[w].pc # "load" /\ worker'[w].n = Nil)
            => worker'[w].pc = "done"]_vars

\* C29: a message whose body does not decode to a job, or whose notificationId
\* is not a valid id, is acknowledged and dropped: the handler returns no error,
\* goes no further (no load, no Sender) and changes no Store or Cache state.
C29_PoisonIsAcked ==
    [][\A w \in Workers :
         (worker[w].pc = "idle" /\ worker'[w].pc # "idle" /\ worker'[w].id \notin Ids)
            => /\ worker'[w].pc = "done" /\ worker'[w].res = "ack"
               /\ store' = store /\ cache' = cache]_vars

\* C30: a worker that loads a notification whose channel is neither email nor
\* telegram acknowledges the message (the handler returns no error) and the
\* Store status of the notification becomes failed.
C30_UnknownChannelFails ==
    [][\A w \in Workers :
         (/\ worker[w].pc = "load" /\ worker'[w].pc \notin {"load", "panic"}
          /\ store[worker[w].id].channel \notin {"email", "telegram"}
          /\ store[worker[w].id].status # StatusCancelled)
            => /\ worker'[w].pc = "done" /\ worker'[w].res = "ack"
               /\ StatusOf(store', worker[w].id) = StatusFailed]_vars

\* C31: when the Store update inside UpdateNotification affects no row, the call
\* returns no error and writes neither the Cache nor the Store; any other error
\* of the Store update is returned to the caller, also without a Cache write.
C31_NoRowAffectedIsSoft ==
    [][\A p \in UpdateInputs :
         (UpdateStep(p) /\ update'.err \notin {"no update options provided", "invalid status",
                                              "invalid channel"})
            => /\ (~update'.execErr /\ store[update'.id] = NoRow)
                     => (update'.err = ErrNil /\ cache' = cache /\ store' = store)
               /\ update'.execErr
                     => (update'.err = ErrDb /\ cache' = cache /\ store' = store)]_vars

C31_Witness ==
    /\ update.pc = "returned"
    /\ update.p = WithRetryCountInc
    /\ ~update.execErr
    /\ store[update.id] = NoRow
    /\ update.err = ErrNil
    /\ \A k \in CacheKeys : cache[k] = Missing

\* the Cache holds, under the key the service writes or the key it reads, a copy
\* of the row of id with status st while the Store row has another status
StaleCopy(id, st) ==
    /\ store[id] # NoRow
    /\ store[id].status # st
    /\ \E k \in {GetKey(id), SetKey(id)} :
          /\ cache[k] # Missing
          /\ Unmarshal(cache[k]) # Nil
          /\ Unmarshal(cache[k]).status = st

\* C32: transition preconditions are decided on the Store, not the Cache: a Cancel
\* that ends while the Cache holds a stale pending copy and the Store row is not
\* pending returns an error and leaves the Store row as it is, and so does a
\* Failed that ends while the Cache holds a stale processing copy and the Store
\* row is not processing.
C32_DecidedOnStore ==
    [][/\ (cancel.pc # "returned" /\ cancel'.pc = "returned"
             /\ StaleCopy(cancel'.id, StatusPending))
            => (cancel'.err # ErrNil /\ store' = store)
       /\ \A w \in Workers :
            (worker[w].pc \in {"failed", "failedUpdate"} /\ worker'[w].pc = "done"
               /\ StaleCopy(worker[w].id, StatusProcessing))
              => (worker'[w].res = "nack" /\ store' = store)]_vars

\* C33: the Cache key GetNotificationByID reads for an id is the key the
\* write-through writes, so a GetNotificationByID issued while the create of
\* that id has returned successfully is served from the Cache.
C33_GetAfterCreateHitsCache ==
    [][(create.pc = "returned" /\ create.err = ErrNil /\ create.pub = "ok"
          /\ GetStep(create.n.id))
         => (GetKey(get'.id) = SetKey(get'.id) /\ get'.reply = "data")]_vars

\* C34: the Cache is advisory for reads: a GetNotificationByID for an id whose
\* row exists returns that row and no error, also when the Cache read or the
\* Cache refresh fails.
C34_CacheAdvisoryForReads ==
    [][\A id \in Ids :
         (GetStep(id) /\ store[id] # NoRow /\ get'.reply # "data")
            => (get'.err = ErrNil /\ get'.n = RepoGetByID(store, id))]_vars

\* C39: for a notification created as pending whose publish succeeded, the delay
\* message expires no earlier than scheduledAt: the time of the create plus the
\* ttl handed to the DelayBus is at least scheduledAt.
C39_NotBeforeScheduledAt ==
    (create.pc = "returned" /\ create.pub = "ok" /\ create.n.status = StatusPending)
        => create.now + create.ttl >= create.params.scheduledAt

\* C35: for each notification that is pending or processing, the live DelayBus
\* timers plus the undelivered dispatch messages for its id are at most one,
\* with a bus that delivers every message once.
C35_AtMostOneMessage ==
    \A id \in Ids :
        StatusOf(store, id) \in {StatusPending, StatusProcessing}
            => delayq[id] + dispatch[id] <= 1

C35_Witness ==
    \E id \in Ids :
        /\ StatusOf(store, id) = StatusPending
        /\ delayq[id] = 0
        /\ dispatch[id] = 1

\* C36: the Sender is invoked at most Attempts times per handled message, the
\* Store retryCount goes up by exactly one after each failed attempt, and when
\* the Sender succeeds after k < Attempts failures the row becomes sent with
\* retryCount k more than when the handling began.
C36_RetryAccounting ==
    [][\A w \in Workers :
         /\ (worker[w].pc = "send" /\ worker'[w].pc # "send")
               => worker[w].attempt < Attempts
         /\ (worker[w].pc = "incRetry" /\ worker'[w].pc # "incRetry")
               => /\ store'[worker[w].id].retryCount = store[worker[w].id].retryCount + 1
                  /\ worker'[w].attempt = worker[w].attempt + 1
         /\ worker[w].pc \in {"send", "incRetry", "failed"}
               => store[worker[w].id].retryCount = worker[w].n.retryCount + worker[w].attempt
         /\ (worker[w].pc = "markSent" /\ worker'[w].pc = "done"
               /\ worker[w].n.channel = ChannelEmail)
               => /\ store'[worker[w].id].status = StatusSent
                  /\ store'[worker[w].id].retryCount
                        = worker[w].n.retryCount + worker[w].attempt
                  /\ worker[w].attempt < Attempts]_vars

C36_Witness ==
    /\ worker[1].pc = "done"
    /\ worker[1].res = "ack"
    /\ store[worker[1].id].status = StatusSent
    /\ store[worker[1].id].channel = ChannelEmail
    /\ store[worker[1].id].retryCount = 2

\* C37: cancelling the context aborts the retry loop: once the context is
\* cancelled while a worker is retrying a send (at least one attempt has
\* failed), that worker starts no further Sender attempt and no retryCount
\* increment is made.
C37_CancelAbortsRetry ==
    [][\A w \in Workers :
         (ctxDone /\ worker[w].attempt > 0)
            => /\ ~(worker[w].pc = "send" /\ worker'[w].pc # "send")
               /\ (worker[w].pc = "incRetry"
                     => store'[worker[w].id].retryCount = store[worker[w].id].retryCount)]_vars

\* C38: at most one SMTP message exchange is in progress on the shared client
\* at any time, also when Send calls return early on a cancelled context.
C38_OneExchangeAtATime == Cardinality(Exchanging) <= 1

\* C40: HTTP error responses are isolated per request: the response of a create
\* request rejected for its channel carries the message of that request, also
\* when another request is rejected at the same time with a different message.
C40_ErrorResponseIsolated ==
    \A r \in Requests :
        http.req[r].pc = "responded" => http.req[r].body = ChannelMessage(http.req[r].fault)
====
